---- MODULE Spec2Model ----
(***************************************************************************)
(* Model of contrib/tsperf/energy_utils/feature_engineering/               *)
(* feature_engineering.py: the three utility functions (week_of_month,     *)
(* lagged_features, moving_averages) and the per-round feature pipeline of *)
(* the script body.                                                        *)
(*                                                                         *)
(* A data frame is a record [index, cols]: index is the sequence of row    *)
(* labels, cols the sequence of columns, each [name, vals] with vals as    *)
(* long as index.  A cell is NaN (the empty tuple) or <<v>>.               *)
(***************************************************************************)
EXTENDS Integers, Sequences, FiniteSets, TLC

VARIABLES
    pc,                 \* position of the running script or function call
    df, lags, start_step, window_size, fea,  \* arguments and result of a utility call
    dt, wom,            \* argument and result of week_of_month
    submission_round,   \* loop variable of the script body
    train_df, aux_df,   \* the two tables read for the round
    all_df,             \* the table being built for the round
    filled_sales,       \* the filled (store, brand, move) table
    lagged_fea, moving_avg, \* the per-group feature tables
    files               \* the output directory: round -> file written, or NoFile

vars == <<pc, df, lags, start_step, window_size, fea, dt, wom, submission_round,
          train_df, aux_df, all_df, filled_sales, lagged_fea, moving_avg, files>>

-----------------------------------------------------------------------------
(* Bounds of the model *)

MaxRows == 3        \* rows of the table handed to a utility function
MaxLag == 4         \* largest lag / start_step / window drawn
MaxYears == 2       \* years of dates drawn for week_of_month
MaxStore == 2       \* stores 1..MaxStore appear in the input files
MaxBrand == 2       \* brands 1..MaxBrand appear in the input files
MaxAuxRows == 2     \* rows of an aux file
MaxTrainRows == 1   \* rows of a train file
NUM_ROUNDS == 2     \* bs.NUM_ROUNDS
TRAIN_START_WEEK == 1   \* bs.TRAIN_START_WEEK
FirstHorizon == 3   \* weeks from TRAIN_START_WEEK to the end of round 1

-----------------------------------------------------------------------------
(* Values and data frames *)

NaN == <<>>
None == <<>>

IsNull(c) == c = NaN

\* the sequence s itself, with every element computed once
Eval(s) == s \o <<>>

Range(s) == {s[i] : i \in DOMAIN s}

RECURSIVE SeqSum(_)
SeqSum(s) == IF s = <<>> THEN 0 ELSE Head(s) + SeqSum(Tail(s))

Abs(n) == IF n < 0 THEN -n ELSE n

RECURSIVE GCD(_, _)
GCD(a, b) == IF b = 0 THEN a ELSE GCD(b, a % b)

\* the exact quotient n / d (d > 0) in lowest terms
Frac(n, d) ==
    LET g == GCD(Abs(n), d)
    IN  [num |-> n \div g, den |-> d \div g]

EmptyFrame == [index |-> <<>>, cols |-> <<>>]

NRows(t) == Len(t.index)

ColumnNames(t) == Eval([j \in DOMAIN t.cols |-> t.cols[j].name])

\* the first column called name
Col(t, name) ==
    LET j == CHOOSE j \in DOMAIN t.cols :
                 /\ t.cols[j].name = name
                 /\ \A h \in 1..(j - 1) : t.cols[h].name # name
    IN  t.cols[j].vals

HasCol(t, name) == \E j \in DOMAIN t.cols : t.cols[j].name = name

\* DataFrame.shift(periods): values move down by periods rows, labels stay
ShiftVals(vals, periods) ==
    Eval([i \in DOMAIN vals |->
        IF i - periods \in DOMAIN vals THEN vals[i - periods] ELSE NaN])

Shift(t, periods) ==
    [index |-> t.index,
     cols  |-> Eval([j \in DOMAIN t.cols |->
                   [name |-> t.cols[j].name,
                    vals |-> ShiftVals(t.cols[j].vals, periods)]])]

\* the non-null values of vals at positions lo..hi
RECURSIVE Observed(_, _, _)
Observed(vals, lo, hi) ==
    IF lo > hi THEN <<>>
    ELSE IF IsNull(vals[lo]) THEN Observed(vals, lo + 1, hi)
         ELSE <<vals[lo][1]>> \o Observed(vals, lo + 1, hi)

Max(a, b) == IF a >= b THEN a ELSE b

\* rolling(window, min_periods, center=False).mean() of one column
RollingMeanVals(vals, window, min_periods) ==
    Eval([i \in DOMAIN vals |->
        LET obs == Observed(vals, Max(1, i - window + 1), i)
        IN  IF Len(obs) >= min_periods /\ Len(obs) > 0
            THEN <<Frac(SeqSum(obs), Len(obs))>>
            ELSE NaN])

RollingMean(t, window, min_periods) ==
    [index |-> t.index,
     cols  |-> Eval([j \in DOMAIN t.cols |->
                   [name |-> t.cols[j].name,
                    vals |-> RollingMeanVals(t.cols[j].vals, window, min_periods)]])]

\* pd.concat(list, axis=1) of frames that share one index
RECURSIVE ConcatColumns(_)
ConcatColumns(df_list) ==
    IF df_list = <<>> THEN <<>>
    ELSE Head(df_list).cols \o ConcatColumns(Tail(df_list))

-----------------------------------------------------------------------------
(* Utility functions *)

\* days from 1970-01-01 to the civil date y-m-d (proleptic Gregorian)
DaysFromCivil(y, m, d) ==
    LET yy  == IF m <= 2 THEN y - 1 ELSE y
        era == yy \div 400
        yoe == yy - era * 400
        mp  == (m + 9) % 12
        doy == (153 * mp + 2) \div 5 + d - 1
        doe == yoe * 365 + yoe \div 4 - yoe \div 100 + doy
    IN  era * 146097 + doe - 719468

\* datetime.weekday(): Monday is 0, Sunday is 6
Weekday(date) == (DaysFromCivil(date.year, date.month, date.day) + 3) % 7

\* ceil(n / 7.0)
Ceil7(n) == (n + 6) \div 7

\* week_of_month with the weekday of the date itself as the offset
week_of_month_own_weekday(date) ==
    LET dom == date.day
        adjusted_dom == dom + Weekday(date)
    IN  Ceil7(adjusted_dom)

week_of_month(date) ==
    LET first_day == [date EXCEPT !.day = 1]
        dom == date.day
        adjusted_dom == dom + Weekday(first_day)
    IN  Ceil7(adjusted_dom)

\* lagged_features shifting up instead of down
lagged_features_rev(t, lag_list) ==
    LET df_list == Eval([h \in DOMAIN lag_list |->
                      LET df_shifted == Shift(t, -lag_list[h])
                      IN  [index |-> df_shifted.index,
                           cols  |-> Eval([j \in DOMAIN df_shifted.cols |->
                                        [name |-> df_shifted.cols[j].name \o "_lag"
                                                    \o ToString(lag_list[h]),
                                         vals |-> df_shifted.cols[j].vals]])]])
    IN  [index |-> t.index, cols |-> ConcatColumns(df_list)]

lagged_features(t, lag_list) ==
    LET df_list == Eval([h \in DOMAIN lag_list |->
                      LET df_shifted == Shift(t, lag_list[h])
                      IN  [index |-> df_shifted.index,
                           cols  |-> Eval([j \in DOMAIN df_shifted.cols |->
                                        [name |-> df_shifted.cols[j].name \o "_lag"
                                                    \o ToString(lag_list[h]),
                                         vals |-> df_shifted.cols[j].vals]])]])
    IN  [index |-> t.index, cols |-> ConcatColumns(df_list)]

\* moving_averages shifting one row too far
moving_averages_off_by_one(t, step, wsize) ==
    LET w == IF wsize = None THEN NRows(t) ELSE wsize[1]
        r == RollingMean(Shift(t, step + 1), w, 1)
    IN  [index |-> r.index,
         cols  |-> Eval([j \in DOMAIN r.cols |->
                      [name |-> r.cols[j].name \o "_mean" \o ToString(w),
                       vals |-> r.cols[j].vals]])]

\* moving_averages requiring a full window of observations
moving_averages_full(t, step, wsize) ==
    LET w == IF wsize = None THEN NRows(t) ELSE wsize[1]
        r == RollingMean(Shift(t, step), w, w)
    IN  [index |-> r.index,
         cols  |-> Eval([j \in DOMAIN r.cols |->
                      [name |-> r.cols[j].name \o "_mean" \o ToString(w),
                       vals |-> r.cols[j].vals]])]

moving_averages(t, step, wsize) ==
    LET w == IF wsize = None THEN NRows(t) ELSE wsize[1]
        r == RollingMean(Shift(t, step), w, 1)
    IN  [index |-> r.index,
         cols  |-> Eval([j \in DOMAIN r.cols |->
                      [name |-> r.cols[j].name \o "_mean" \o ToString(w),
                       vals |-> r.cols[j].vals]])]

-----------------------------------------------------------------------------
(* Table operations of the script body *)

RangeIndex(n) == Eval([i \in 1..n |-> i - 1])

\* the key of every row: its cells in the columns named by on
KeysOf(t, on) ==
    LET kc == Eval([k \in DOMAIN on |-> Col(t, on[k])])
    IN  Eval([i \in 1..NRows(t) |-> Eval([k \in DOMAIN on |-> kc[k][i]])])

\* the positions of keys that hold key, ascending
Matches(keys, key) ==
    LET Same(i) == keys[i] = key
    IN  SelectSeq(Eval([i \in DOMAIN keys |-> i]), Same)

\* one pair <<i, j>> per key i of dkeys and equal key j of okeys; <<i, 0>> when
\* no key of okeys is equal
RECURSIVE JoinPairs(_, _, _)
JoinPairs(dkeys, okeys, i) ==
    IF i > Len(dkeys) THEN <<>>
    ELSE LET ms == Matches(okeys, dkeys[i])
         IN  (IF ms = <<>> THEN << <<i, 0>> >>
              ELSE Eval([m \in DOMAIN ms |-> <<i, ms[m]>>]))
             \o JoinPairs(dkeys, okeys, i + 1)

Swap(pairs) == Eval([p \in DOMAIN pairs |-> <<pairs[p][2], pairs[p][1]>>])

\* the keys of rkeys that no key of lkeys equals, as pairs <<0, j>>
Unmatched(lkeys, rkeys) ==
    LET Alone(j) == Matches(lkeys, rkeys[j]) = <<>>
        js == SelectSeq(Eval([j \in DOMAIN rkeys |-> j]), Alone)
    IN  Eval([m \in DOMAIN js |-> <<0, js[m]>>])

\* the pairs <<row of left or 0, row of right or 0>> of a join
MergePairs(left, right, how, on) ==
    LET lkeys == KeysOf(left, on)
        rkeys == KeysOf(right, on)
    IN  IF how = "left" THEN JoinPairs(lkeys, rkeys, 1)
        ELSE IF how = "right" THEN Swap(JoinPairs(rkeys, lkeys, 1))
        ELSE JoinPairs(lkeys, rkeys, 1) \o Unmatched(lkeys, rkeys)

\* pd.merge(left, right, how, on): left's columns, then right's other columns
Merge(left, right, how, on) ==
    LET pairs == MergePairs(left, right, how, on)
        IsKey(name) == \E k \in DOMAIN on : on[k] = name
        NotKey(c) == ~IsKey(c.name)
        LeftCol(c) ==
            LET other == IF IsKey(c.name) THEN Col(right, c.name) ELSE <<>>
            IN  [name |-> c.name,
                 vals |-> Eval([p \in DOMAIN pairs |->
                            IF pairs[p][1] # 0 THEN c.vals[pairs[p][1]]
                            ELSE IF IsKey(c.name) THEN other[pairs[p][2]]
                            ELSE NaN])]
        RightCol(c) ==
            [name |-> c.name,
             vals |-> Eval([p \in DOMAIN pairs |->
                        IF pairs[p][2] # 0 THEN c.vals[pairs[p][2]] ELSE NaN])]
        rest == SelectSeq(right.cols, NotKey)
    IN  [index |-> RangeIndex(Len(pairs)),
         cols  |-> Eval([j \in DOMAIN left.cols |-> LeftCol(left.cols[j])])
                   \o Eval([j \in DOMAIN rest |-> RightCol(rest[j])])]

\* the join of line 82 turned into an outer join
MergeTrainAux_outer(train, aux) ==
    Merge(train, aux, "outer", <<"store", "brand", "week">>)

\* line 82
MergeTrainAux(train, aux) ==
    Merge(train, aux, "right", <<"store", "brand", "week">>)

\* Series.unique(): the values in order of first appearance
RECURSIVE Unique(_)
Unique(vals) ==
    IF vals = <<>> THEN <<>>
    ELSE LET front == Unique(SubSeq(vals, 1, Len(vals) - 1))
             last == vals[Len(vals)]
         IN  IF \E i \in DOMAIN front : front[i] = last THEN front
             ELSE Append(front, last)

\* DataFrame.from_records(itertools.product(stores, brands, weeks))
ItemFrame(store_list, brand_list, week_list) ==
    LET nb == Len(brand_list)
        nw == Len(week_list)
        n == Len(store_list) * nb * nw
    IN  [index |-> RangeIndex(n),
         cols  |-> <<[name |-> "store",
                      vals |-> Eval([p \in 1..n |-> store_list[((p - 1) \div (nb * nw)) + 1]])],
                     [name |-> "brand",
                      vals |-> Eval([p \in 1..n |-> brand_list[(((p - 1) \div nw) % nb) + 1]])],
                     [name |-> "week",
                      vals |-> Eval([p \in 1..n |-> week_list[((p - 1) % nw) + 1]])]>>]

\* the frame with one more column at the end
WithColumn(t, name, vals) ==
    [index |-> t.index, cols |-> Append(t.cols, [name |-> name, vals |-> vals])]

\* df[names]
Select(t, names) ==
    [index |-> t.index,
     cols  |-> Eval([k \in DOMAIN names |-> [name |-> names[k], vals |-> Col(t, names[k])]])]

\* the rows at the given positions, with their labels
Take(t, positions) ==
    [index |-> Eval([m \in DOMAIN positions |-> t.index[positions[m]]]),
     cols  |-> Eval([j \in DOMAIN t.cols |->
                   [name |-> t.cols[j].name,
                    vals |-> Eval([m \in DOMAIN positions |-> t.cols[j].vals[positions[m]]])]])]

\* lexicographic order of two tuples of non-null integer cells
RECURSIVE KeyLess(_, _)
KeyLess(a, b) ==
    IF a = <<>> THEN FALSE
    ELSE IF Head(a)[1] # Head(b)[1] THEN Head(a)[1] < Head(b)[1]
    ELSE KeyLess(Tail(a), Tail(b))

\* the positions in P ordered by key, ties by position (a stable sort)
SortedPositions(keys, P) ==
    LET Before(p, q) ==
            \/ KeyLess(keys[p], keys[q])
            \/ keys[p] = keys[q] /\ p <= q
        rank == Eval([p \in DOMAIN keys |->
                    IF p \in P THEN Cardinality({q \in P : Before(q, p)}) ELSE 0])
    IN  Eval([r \in 1..Cardinality(P) |-> CHOOSE p \in P : rank[p] = r])

\* DataFrame.sort_values(by)
SortValues(t, by) == Take(t, SortedPositions(KeysOf(t, by), 1..NRows(t)))

\* fillna(method="ffill") of one column
RECURSIVE FFill(_)
FFill(vals) ==
    IF vals = <<>> THEN <<>>
    ELSE LET front == FFill(SubSeq(vals, 1, Len(vals) - 1))
             last == vals[Len(vals)]
         IN  Append(front, IF IsNull(last) /\ front # <<>> THEN front[Len(front)]
                           ELSE last)

\* fillna(method="bfill") of one column
RECURSIVE BFill(_)
BFill(vals) ==
    IF vals = <<>> THEN <<>>
    ELSE LET back == BFill(Tail(vals))
         IN  <<IF IsNull(Head(vals)) /\ back # <<>> THEN Head(back) ELSE Head(vals)>>
             \o back

\* df.apply(lambda x: x.fillna(method="ffill").fillna(method="bfill")): the
\* lambda receives each column of the frame whole
FillColumns(t) ==
    [index |-> t.index,
     cols  |-> Eval([j \in DOMAIN t.cols |->
                   [name |-> t.cols[j].name, vals |-> BFill(FFill(t.cols[j].vals))]])]

\* frames of the same columns stacked one below the other
RECURSIVE ConcatRows(_)
ConcatRows(frames) ==
    IF Len(frames) = 1 THEN frames[1]
    ELSE LET top == frames[1]
             rest == ConcatRows(Tail(frames))
         IN  [index |-> top.index \o rest.index,
              cols  |-> Eval([j \in DOMAIN top.cols |->
                           [name |-> top.cols[j].name,
                            vals |-> top.cols[j].vals \o rest.cols[j].vals]])]

\* the distinct keys among keys, ascending
GroupKeys(keys) ==
    LET firsts == {p \in DOMAIN keys : \A q \in 1..(p - 1) : keys[q] # keys[p]}
        order == SortedPositions(keys, firsts)
    IN  Eval([g \in DOMAIN order |-> keys[order[g]]])

\* pd.concat([base] + others, axis=1): the others' rows are matched to the
\* base's by label
ConcatAxis1(base, others) ==
    LET \* for each row of base, the row of f with its label, or 0
        Where(f) ==
            Eval([i \in DOMAIN base.index |->
                IF \E h \in DOMAIN f.index : f.index[h] = base.index[i]
                THEN CHOOSE h \in DOMAIN f.index : f.index[h] = base.index[i]
                ELSE 0])
        Aligned(c, at) ==
            [name |-> c.name,
             vals |-> Eval([i \in DOMAIN base.index |->
                        IF at[i] # 0 THEN c.vals[at[i]] ELSE NaN])]
        RECURSIVE More(_)
        More(fs) ==
            IF fs = <<>> THEN <<>>
            ELSE LET at == Where(Head(fs))
                 IN  Eval([j \in DOMAIN Head(fs).cols |-> Aligned(Head(fs).cols[j], at)])
                     \o More(Tail(fs))
    IN  [index |-> base.index, cols |-> base.cols \o More(others)]

\* the civil date of a day number counted from 1970-01-01
CivilFromDays(days) ==
    LET z   == days + 719468
        era == z \div 146097
        doe == z - era * 146097
        yoe == (doe - doe \div 1460 + doe \div 36524 - doe \div 146096) \div 365
        doy == doe - (365 * yoe + yoe \div 4 - yoe \div 100)
        mp  == (5 * doy + 2) \div 153
        d   == doy - (153 * mp + 2) \div 5 + 1
        m   == IF mp < 10 THEN mp + 3 ELSE mp - 9
        y   == yoe + era * 400 + (IF m <= 2 THEN 1 ELSE 0)
    IN  [year |-> y, month |-> m, day |-> d]

\* date + datetime.timedelta(days=n)
AddDays(date, n) == CivilFromDays(DaysFromCivil(date.year, date.month, date.day) + n)

-----------------------------------------------------------------------------
(* Calls of the utility functions on drawn arguments *)

\* bs.FIRST_WEEK_START, the Thursday that starts week 1
FIRST_WEEK_START == [year |-> 1989, month |-> 9, day |-> 14]

IsLeap(y) == (y % 4 = 0 /\ y % 100 # 0) \/ y % 400 = 0

DaysInMonth(y, m) ==
    IF m = 2 THEN (IF IsLeap(y) THEN 29 ELSE 28)
    ELSE IF m \in {4, 6, 9, 11} THEN 30 ELSE 31

Years == (FIRST_WEEK_START.year - 1)..(FIRST_WEEK_START.year - 2 + MaxYears)

Dates == {d \in [year : Years, month : 1..12, day : 1..31] :
             d.day <= DaysInMonth(d.year, d.month)}

Cells == {NaN, <<1>>, <<2>>}

ColumnPool == <<"a", "b">>

\* the frames of n rows and the first k columns of the pool, under a RangeIndex
FramesOf(n, k) ==
    {[index |-> [i \in 1..n |-> i - 1],
      cols  |-> [j \in 1..k |-> [name |-> ColumnPool[j], vals |-> data[j]]]] :
        data \in [1..k -> [1..n -> Cells]]}

Frames == UNION {FramesOf(n, k) : n \in 0..MaxRows, k \in 1..Len(ColumnPool)}

LagLists == UNION {[1..m -> 0..MaxLag] : m \in 1..2}

NoDate == [year |-> 0, month |-> 0, day |-> 0]

\* the variables of the script body, while only a utility function runs
ScriptIdle ==
    /\ submission_round = 0
    /\ train_df = EmptyFrame
    /\ aux_df = EmptyFrame
    /\ all_df = EmptyFrame
    /\ filled_sales = EmptyFrame
    /\ lagged_fea = EmptyFrame
    /\ moving_avg = EmptyFrame
    /\ files = <<>>

ScriptVars == <<submission_round, train_df, aux_df, all_df, filled_sales,
                lagged_fea, moving_avg, files>>

WomInit ==
    /\ pc = "call"
    /\ dt \in Dates
    /\ wom = 0
    /\ df = EmptyFrame /\ lags = <<>> /\ start_step = 0 /\ window_size = None
    /\ fea = EmptyFrame
    /\ ScriptIdle

CallWeekOfMonth ==
    /\ pc = "call"
    /\ dt # NoDate
    /\ wom' = week_of_month(dt)
    /\ pc' = "return"
    /\ UNCHANGED <<df, lags, start_step, window_size, fea, dt, ScriptVars>>

WomNext == CallWeekOfMonth

WomSpec == WomInit /\ [][WomNext]_vars

LagInit ==
    /\ pc = "call"
    /\ df \in Frames
    /\ lags \in LagLists
    /\ start_step = 0 /\ window_size = None
    /\ fea = EmptyFrame
    /\ dt = NoDate /\ wom = 0
    /\ ScriptIdle

CallLaggedFeatures ==
    /\ pc = "call"
    /\ lags # <<>>
    /\ fea' = lagged_features(df, lags)
    /\ pc' = "return"
    /\ UNCHANGED <<df, lags, start_step, window_size, dt, wom, ScriptVars>>

LagNext == CallLaggedFeatures

LagSpec == LagInit /\ [][LagNext]_vars

MAInit ==
    /\ pc = "call"
    /\ df \in Frames
    /\ lags = <<>>
    /\ start_step \in 0..MaxLag
    /\ window_size \in {None} \cup {<<w>> : w \in 1..MaxLag}
    /\ fea = EmptyFrame
    /\ dt = NoDate /\ wom = 0
    /\ ScriptIdle

CallMovingAverages ==
    /\ pc = "call"
    /\ lags = <<>>
    /\ dt = NoDate
    /\ fea' = moving_averages(df, start_step, window_size)
    /\ pc' = "return"
    /\ UNCHANGED <<df, lags, start_step, window_size, dt, wom, ScriptVars>>

MANext == CallMovingAverages

MASpec == MAInit /\ [][MANext]_vars

-----------------------------------------------------------------------------
(* Properties of the utility functions *)

\* C2: week_of_month(d) lies in 1..6, and it does not decrease from d to any
\* later date of the same month.
C2_WeekOfMonthRange ==
    pc = "return" /\ dt # NoDate =>
        /\ wom >= 1
        /\ wom <= 6
        /\ \A d2 \in 1..DaysInMonth(dt.year, dt.month) :
              d2 >= dt.day => wom <= week_of_month([dt EXCEPT !.day = d2])

\* a date in the sixth week of its month, and one in the first
C2_Witness ==
    /\ pc = "return" /\ dt # NoDate
    /\ wom = 6
    /\ week_of_month([dt EXCEPT !.day = 1]) = 1

\* C3: lagged_features keeps the rows; for each lag k of the list, in list order,
\* there is one block of the input's columns, each renamed c_lag<k>, whose row i
\* holds the input's row i-k and whose first k rows are null.
C3_LaggedShape ==
    pc = "return" /\ lags # <<>> =>
        LET n == NRows(df)
            m == Len(df.cols)
        IN  /\ fea.index = df.index
            /\ Len(fea.cols) = Len(lags) * m
            /\ \A h \in DOMAIN lags : \A j \in DOMAIN df.cols :
                  LET c == fea.cols[(h - 1) * m + j]
                      k == lags[h]
                  IN  /\ c.name = df.cols[j].name \o "_lag" \o ToString(k)
                      /\ Len(c.vals) = n
                      /\ \A i \in 1..n :
                            c.vals[i] = IF i <= k THEN NaN ELSE df.cols[j].vals[i - k]

\* two different lags, one of them moving a value down below a null row
C3_Witness ==
    /\ pc = "return" /\ Len(lags) = 2 /\ lags[1] > lags[2] /\ lags[2] > 0
    /\ Len(df.cols) = 2
    /\ NRows(df) = MaxRows
    /\ \E i \in 1..NRows(fea) : fea.cols[3].vals[i] # NaN
    /\ fea.cols[1].vals[lags[1]] = NaN

\* the sum of f over the finite set S
RECURSIVE SumOver(_, _)
SumOver(S, f) ==
    IF S = {} THEN 0
    ELSE LET x == CHOOSE x \in S : TRUE
         IN  f[x] + SumOver(S \ {x}, f)

\* C4: with start_step 0 and window_size 1, every cell of moving_averages is the
\* input's cell at that position, null where the input is null.
C4_WindowOneIdentity ==
    pc = "return" /\ lags = <<>> /\ dt = NoDate
      /\ start_step = 0 /\ window_size = <<1>> =>
        /\ fea.index = df.index
        /\ Len(fea.cols) = Len(df.cols)
        /\ \A j \in DOMAIN df.cols : \A i \in 1..NRows(df) :
              LET in == df.cols[j].vals[i]
                  out == fea.cols[j].vals[i]
              IN  IF in = NaN THEN out = NaN
                  ELSE out # NaN /\ out[1].num = in[1] /\ out[1].den = 1

\* a window of 1 over a column holding a null and two different values
C4_Witness ==
    /\ pc = "return" /\ lags = <<>> /\ dt = NoDate
    /\ start_step = 0 /\ window_size = <<1>>
    /\ NRows(df) = MaxRows
    /\ \E j \in DOMAIN df.cols : Range(df.cols[j].vals) = Cells

\* C8: row i of moving_averages(df, s, w) is the mean of the non-null values of
\* rows i-s-w+1 .. i-s of df, clipped to the rows that exist, and null when
\* there is none; an omitted window is the row count; column c is renamed
\* c_mean<w>.
C8_MovingAverageMeaning ==
    pc = "return" /\ lags = <<>> /\ dt = NoDate =>
        LET n == NRows(df)
            s == start_step
            w == IF window_size = None THEN n ELSE window_size[1]
        IN  /\ fea.index = df.index
            /\ Len(fea.cols) = Len(df.cols)
            /\ \A j \in DOMAIN df.cols :
                  /\ fea.cols[j].name = df.cols[j].name \o "_mean" \o ToString(w)
                  /\ \A i \in 1..n :
                        LET in == df.cols[j].vals
                            S == {r \in 1..n : /\ r >= i - s - w + 1
                                               /\ r <= i - s
                                               /\ in[r] # NaN}
                            out == fea.cols[j].vals[i]
                        IN  IF S = {} THEN out = NaN
                            ELSE /\ out # NaN
                                 /\ out[1].num * Cardinality(S)
                                      = SumOver(S, [r \in S |-> in[r][1]]) * out[1].den
                                 /\ out[1].den > 0

\* a shifted window that is clipped at the first row, skips a null and averages
\* two different values
C8_Witness ==
    /\ pc = "return" /\ lags = <<>> /\ dt = NoDate
    /\ start_step = 1 /\ window_size = <<2>>
    /\ NRows(df) = MaxRows
    /\ \E j \in DOMAIN fea.cols :
          /\ fea.cols[j].vals[1] = NaN
          /\ fea.cols[j].vals[MaxRows] # NaN
          /\ fea.cols[j].vals[MaxRows][1].den = 2
          /\ df.cols[j].vals[MaxRows] = NaN

-----------------------------------------------------------------------------
(* The script body: one iteration per submission round *)

\* bs.TEST_END_WEEK_LIST: the last week of each round
TEST_END_WEEK_LIST ==
    Eval([n \in 1..NUM_ROUNDS |-> TRAIN_START_WEEK + FirstHorizon - 1 + 2 * (n - 1)])

price_cols == Eval([i \in 1..11 |-> "price" \o ToString(i)])

key_cols == <<"store", "brand", "week">>

TrainFileColumns == <<"store", "brand", "week", "logmove", "profit">>

AuxFileColumns == key_cols \o price_cols \o <<"deal", "feat">>

\* DataFrame.from_records(rows, columns) under a RangeIndex
FromRecords(columns, rows) ==
    [index |-> RangeIndex(Len(rows)),
     cols  |-> Eval([j \in DOMAIN columns |->
                   [name |-> columns[j], vals |-> Eval([i \in DOMAIN rows |-> rows[i][j]])]])]

\* the weeks a file of round n may mention: the round's range and the week after
FileWeeks(n) == TRAIN_START_WEEK..(TEST_END_WEEK_LIST[n] + 1)

TrainRecords(n) ==
    {<< <<s>>, <<b>>, <<w>>, lm, <<5>> >> :
        s \in 1..MaxStore, b \in 1..MaxBrand, w \in FileWeeks(n), lm \in {NaN, <<2>>}}

AuxRecords(n) ==
    {<< <<s>>, <<b>>, <<w>> >> \o Eval([i \in 1..11 |-> <<i>>]) \o << <<0>>, <<1>> >> :
        s \in 1..MaxStore, b \in 1..MaxBrand, w \in FileWeeks(n)}

\* the contents train_round_n.csv can have
TrainFiles(n) ==
    {FromRecords(TrainFileColumns, rows) :
        rows \in UNION {[1..m -> TrainRecords(n)] : m \in 1..MaxTrainRows}}

\* the contents aux_round_n.csv can have
AuxFiles(n) ==
    {FromRecords(AuxFileColumns, rows) :
        rows \in UNION {[1..m -> AuxRecords(n)] : m \in 1..MaxAuxRows}}

\* round(math.exp(x)) for the log sales the files hold
RoundExp(x) == CASE x = 0 -> 1 [] x = 1 -> 3 [] x = 2 -> 7 [] x = 3 -> 20

\* lines 78-79: the move column, then the six columns kept
CalcMove(train) ==
    LET logmove == Col(train, "logmove")
        move == Eval([i \in DOMAIN logmove |-> <<RoundExp(logmove[i][1])>>])
    IN  Select(WithColumn(train, "move", move),
               <<"store", "brand", "week", "profit", "move", "logmove">>)

\* math.exp of a missing value gives nan, and round(nan) raises
CalcMoveRaises(train) ==
    \E i \in 1..NRows(train) : IsNull(Col(train, "logmove")[i])

\* lines 85-91: every (store, brand, week) of the round, joined with the rows
FillGaps(merged, n) ==
    LET store_list == Unique(Col(merged, "store"))
        brand_list == Unique(Col(merged, "brand"))
        weeks == TEST_END_WEEK_LIST[n] - TRAIN_START_WEEK + 1
        week_list == Eval([k \in 1..weeks |-> <<TRAIN_START_WEEK + k - 1>>])
        item_df == ItemFrame(store_list, brand_list, week_list)
    IN  Merge(item_df, merged, "left", key_cols)

\* the quotient p / a of an integer and a fraction
Quotient(p, a) ==
    IF a.num > 0 THEN Frac(p * a.den, a.num)
    ELSE IF a.num < 0 THEN Frac(-(p * a.den), -a.num)
    ELSE [num |-> p, den |-> 0]

\* line 109 raises KeyError when a row's brand has no price column
PriceRaises(t) ==
    \E i \in 1..NRows(t) : ~HasCol(t, "price" \o ToString(Col(t, "brand")[i][1]))

\* lines 109-111
PriceFeatures(t) ==
    LET rows == 1..NRows(t)
        brand == Col(t, "brand")
        prices == Eval([k \in DOMAIN price_cols |-> Col(t, price_cols[k])])
        price == Eval([i \in rows |-> Col(t, "price" \o ToString(brand[i][1]))[i]])
        RowPrices(i) == Eval([k \in DOMAIN price_cols |-> prices[k][i]])
        avg_price == Eval([i \in rows |->
                        <<Frac(SeqSum(Observed(RowPrices(i), 1, Len(price_cols))),
                               Len(price_cols))>>])
        price_ratio == Eval([i \in rows |->
                          IF IsNull(price[i]) THEN NaN
                          ELSE IF price[i][1] = 0 /\ avg_price[i][1].num = 0 THEN NaN
                          ELSE <<Quotient(price[i][1], avg_price[i][1])>>])
    IN  WithColumn(WithColumn(WithColumn(t, "price", price),
                              "avg_price", avg_price),
                   "price_ratio", price_ratio)

\* lines 114-121
DateFeatures(t) ==
    LET rows == 1..NRows(t)
        week == Col(t, "week")
        week_start == Eval([i \in rows |-> <<AddDays(FIRST_WEEK_START, (week[i][1] - 1) * 7)>>])
        t1 == WithColumn(t, "week_start", week_start)
        t2 == WithColumn(t1, "week_of_month",
                         Eval([i \in rows |-> <<week_of_month(week_start[i][1])>>]))
        t3 == WithColumn(t2, "year", Eval([i \in rows |-> <<week_start[i][1].year>>]))
        t4 == WithColumn(t3, "month", Eval([i \in rows |-> <<week_start[i][1].month>>]))
    IN  WithColumn(t4, "day", Eval([i \in rows |-> <<week_start[i][1].day>>]))

\* lines 129-131
FilledSales(sorted) == FillColumns(Select(sorted, <<"store", "brand", "move">>))

\* df.groupby(by): the groups of t, ascending by key, each with its rows' labels
Groups(t, by) ==
    LET keys == KeysOf(t, by)
        groups == GroupKeys(keys)
    IN  Eval([g \in DOMAIN groups |-> Take(t, Matches(keys, groups[g]))])

\* .apply(F) of a groupby, F returning frames labelled like their groups: the
\* frames one below the other
Combine(frames) == IF frames = <<>> THEN EmptyFrame ELSE ConcatRows(frames)

\* line 132
LaggedFea(filled) ==
    LET groups == Groups(filled, <<"store", "brand">>)
    IN  Combine(Eval([g \in DOMAIN groups |->
                        lagged_features(Select(groups[g], <<"move">>), <<2, 3, 4>>)]))

\* line 133
MovingAvg(filled) ==
    LET groups == Groups(filled, <<"store", "brand">>)
    IN  Combine(Eval([g \in DOMAIN groups |->
                        moving_averages(Select(groups[g], <<"move">>), 2, <<10>>)]))

\* what to_csv(file_name, index=False) leaves on disk, reduced to the header and
\* the weeks the data rows cover
ToCsv(t) ==
    [exists |-> TRUE, columns |-> ColumnNames(t),
     weeks |-> {c[1] : c \in Range(Col(t, "week"))}]

NoFile == [exists |-> FALSE, columns |-> <<>>, weeks |-> {}]

UtilityIdle ==
    /\ df = EmptyFrame /\ lags = <<>> /\ start_step = 0 /\ window_size = None
    /\ fea = EmptyFrame /\ dt = NoDate /\ wom = 0

UtilityVars == <<df, lags, start_step, window_size, fea, dt, wom>>

Init ==
    /\ pc = "read"
    /\ submission_round = 1
    /\ train_df = EmptyFrame
    /\ aux_df = EmptyFrame
    /\ all_df = EmptyFrame
    /\ filled_sales = EmptyFrame
    /\ lagged_fea = EmptyFrame
    /\ moving_avg = EmptyFrame
    /\ files = [n \in 1..NUM_ROUNDS |-> NoFile]
    /\ UtilityIdle

\* lines 72-75: both files of the round are read
ReadData ==
    /\ pc = "read"
    /\ submission_round <= NUM_ROUNDS
    /\ \E train \in TrainFiles(submission_round), aux \in AuxFiles(submission_round) :
          /\ train_df' = train
          /\ aux_df' = aux
    /\ pc' = "merge"
    /\ UNCHANGED <<submission_round, all_df, filled_sales, lagged_fea, moving_avg,
                   files, UtilityVars>>

\* a missing file skipped and the loop going on with the next round
ReadDataRaises_skip ==
    /\ pc = "read"
    /\ submission_round <= NUM_ROUNDS
    /\ submission_round' = submission_round + 1
    /\ pc' = IF submission_round = NUM_ROUNDS THEN "done" ELSE "read"
    /\ UNCHANGED <<train_df, aux_df, all_df, filled_sales, lagged_fea, moving_avg,
                   files, UtilityVars>>

\* lines 74-75: read_csv raises when a file of the round is missing
ReadDataRaises ==
    /\ pc = "read"
    /\ submission_round <= NUM_ROUNDS
    /\ pc' = "failed"
    /\ UNCHANGED <<submission_round, train_df, aux_df, all_df, filled_sales,
                   lagged_fea, moving_avg, files, UtilityVars>>

\* lines 78-91: move, the join of the two tables, the grid
MergeAndFillGaps ==
    /\ pc = "merge"
    /\ ~CalcMoveRaises(train_df)
    /\ train_df' = CalcMove(train_df)
    /\ all_df' = FillGaps(MergeTrainAux(train_df', aux_df), submission_round)
    /\ pc' = "features"
    /\ UNCHANGED <<submission_round, aux_df, filled_sales, lagged_fea, moving_avg,
                   files, UtilityVars>>

\* line 78 raises on a row without log sales
CalcMoveFails ==
    /\ pc = "merge"
    /\ CalcMoveRaises(train_df)
    /\ pc' = "failed"
    /\ UNCHANGED <<submission_round, train_df, aux_df, all_df, filled_sales,
                   lagged_fea, moving_avg, files, UtilityVars>>

\* lines 96-134: the derived columns, the sort, the fill, the per-group features
CalcFeatures ==
    /\ pc = "features"
    /\ IF PriceRaises(all_df)
       THEN /\ pc' = "failed"
            /\ UNCHANGED <<all_df, filled_sales, lagged_fea, moving_avg>>
       ELSE LET sorted == SortValues(DateFeatures(PriceFeatures(all_df)), key_cols)
            IN  /\ filled_sales' = FilledSales(sorted)
                /\ lagged_fea' = LaggedFea(filled_sales')
                /\ moving_avg' = MovingAvg(filled_sales')
                /\ all_df' = ConcatAxis1(sorted, <<lagged_fea', moving_avg'>>)
                /\ pc' = "write"
    /\ UNCHANGED <<submission_round, train_df, aux_df, files, UtilityVars>>

\* lines 143-148 and the loop header: the round's file is written and the loop
\* goes on; every table of the round is rebound before the next round reads it
WriteCsv ==
    /\ pc = "write"
    /\ files' = [files EXCEPT ![submission_round] = ToCsv(all_df)]
    /\ submission_round' = submission_round + 1
    /\ pc' = IF submission_round = NUM_ROUNDS THEN "done" ELSE "read"
    /\ train_df' = EmptyFrame
    /\ aux_df' = EmptyFrame
    /\ all_df' = EmptyFrame
    /\ filled_sales' = EmptyFrame
    /\ lagged_fea' = EmptyFrame
    /\ moving_avg' = EmptyFrame
    /\ UNCHANGED UtilityVars

Next ==
    \/ ReadData
    \/ ReadDataRaises
    \/ MergeAndFillGaps
    \/ CalcMoveFails
    \/ CalcFeatures
    \/ WriteCsv

Spec == Init /\ [][Next]_vars

-----------------------------------------------------------------------------
(* Properties of the script body *)

GridWeeks == TRAIN_START_WEEK..TEST_END_WEEK_LIST[submission_round]

Values(vals) == {c[1] : c \in Range(vals) \ {NaN}}

\* the rows of t with the key <<store, brand, week>>
RowsAt(t, key) ==
    {i \in 1..NRows(t) :
        <<Col(t, "store")[i], Col(t, "brand")[i], Col(t, "week")[i]>> = key}

\* C1: after the grid left-join the table has exactly one row per (store, brand,
\* week) cell of the round, so |stores| x |brands| x |weeks| rows.
C1_OneRowPerGridCell ==
    pc = "features" =>
        LET stores == Values(Col(aux_df, "store"))
            brands == Values(Col(aux_df, "brand"))
        IN  /\ NRows(all_df)
                 = Cardinality(stores) * Cardinality(brands) * Cardinality(GridWeeks)
            /\ \A s \in stores, b \in brands, w \in GridWeeks :
                  Cardinality(RowsAt(all_df, << <<s>>, <<b>>, <<w>> >>)) = 1

ClaimedColumns ==
    <<"store", "brand", "week", "profit", "move", "logmove">> \o price_cols
    \o <<"deal", "feat", "price", "avg_price", "price_ratio", "week_start",
         "week_of_month", "move_lag2", "move_lag3", "move_lag4", "move_mean10">>

\* C5: a written file has exactly the columns store, brand, week, profit, move,
\* logmove, price1..price11, deal, feat, price, avg_price, price_ratio,
\* week_start, week_of_month, move_lag2, move_lag3, move_lag4, move_mean10.
C5_OutputColumns ==
    \A n \in DOMAIN files :
        files[n].exists =>
            /\ Range(files[n].columns) = Range(ClaimedColumns)
            /\ Len(files[n].columns) = Len(ClaimedColumns)

\* the sales record r of train_df is found, with its values, in all_df
Kept(r) ==
    \E i \in 1..NRows(all_df) :
        /\ \A k \in DOMAIN key_cols :
              Col(all_df, key_cols[k])[i] = Col(train_df, key_cols[k])[r]
        /\ Col(all_df, "profit")[i] = Col(train_df, "profit")[r]
        /\ Col(all_df, "move")[i] = Col(train_df, "move")[r]
        /\ Col(all_df, "logmove")[i] = Col(train_df, "logmove")[r]

\* no row of all_df with the key of sales record r holds sales values
Dropped(r) ==
    \A i \in 1..NRows(all_df) :
        (\A k \in DOMAIN key_cols :
              Col(all_df, key_cols[k])[i] = Col(train_df, key_cols[k])[r])
        => /\ Col(all_df, "profit")[i] = NaN
           /\ Col(all_df, "move")[i] = NaN
           /\ Col(all_df, "logmove")[i] = NaN

InAux(r) ==
    \E j \in 1..NRows(aux_df) :
        \A k \in DOMAIN key_cols :
            Col(aux_df, key_cols[k])[j] = Col(train_df, key_cols[k])[r]

InRange(r) == Col(train_df, "week")[r][1] \in GridWeeks

\* C6 as stated: the join is an outer join, so every sales record of the round's
\* weeks keeps its profit, move and logmove in the expanded table, also without
\* an aux row of its key.
C6_OuterJoinKeepsSales ==
    pc = "features" =>
        \A r \in 1..NRows(train_df) : InRange(r) => Kept(r)

\* C6 amended: the join is a right join onto the aux rows; a sales record of the
\* round's weeks keeps its values when the aux table has a row of its key and is
\* dropped when it has none.
C6_RightJoinKeepsMatchedSales ==
    pc = "features" =>
        \A r \in 1..NRows(train_df) :
            InRange(r) => IF InAux(r) THEN Kept(r) ELSE Dropped(r)

\* a sales record with an aux row of its key, next to an aux row of another key
C6_Witness ==
    /\ pc = "features"
    /\ NRows(aux_df) = 2
    /\ \E r \in 1..NRows(train_df) : InRange(r) /\ InAux(r) /\ Kept(r)
    /\ \E i \in 1..NRows(all_df) : Col(all_df, "move")[i] = NaN

\* the rows of all_df in the (store, brand) group of row i
SameGroup(i) ==
    {h \in 1..NRows(all_df) :
        /\ Col(all_df, "store")[h] = Col(all_df, "store")[i]
        /\ Col(all_df, "brand")[h] = Col(all_df, "brand")[i]}

SetMax(S) == CHOOSE x \in S : \A y \in S : y <= x

SetMin(S) == CHOOSE x \in S : \A y \in S : x <= y

\* the move of row i of the sorted table, filled inside its group: its own
\* value, else the nearest earlier one, else the nearest later one, else null
GroupFilledMove(i) ==
    LET move == Col(all_df, "move")
        seen == {h \in SameGroup(i) : move[h] # NaN}
        earlier == {h \in seen : h <= i}
        later == {h \in seen : h >= i}
    IN  IF earlier # {} THEN move[SetMax(earlier)]
        ELSE IF later # {} THEN move[SetMin(later)]
        ELSE NaN

\* C7: in the sorted table every null move is filled from the nearest earlier
\* non-null move of its (store, brand) group, else the nearest later one of the
\* group, never from another group; a group without a move stays null.
C7_FillWithinGroup ==
    pc = "write" =>
        /\ filled_sales.index = all_df.index
        /\ \A i \in 1..NRows(all_df) :
              Col(filled_sales, "move")[i] = GroupFilledMove(i)

\* the row of the group of row i that holds the week k weeks earlier, or 0
WeeksBack(i, k) ==
    LET week == Col(all_df, "week")
        hits == {h \in SameGroup(i) : week[h][1] = week[i][1] - k}
    IN  IF hits = {} THEN 0 ELSE SetMin(hits)

\* C10: in the output, move_lag<k> of the row of week w is the filled move of
\* week w-k of the same (store, brand) group, null in the group's first k weeks;
\* move_mean10 is the mean of the filled move of weeks w-11..w-2 of the group,
\* null in its first 2 weeks; no value of another group enters.
C10_FeaturesWithinGroup ==
    pc = "write" =>
        \A i \in 1..NRows(all_df) :
            /\ \A k \in {2, 3, 4} :
                  Col(all_df, "move_lag" \o ToString(k))[i]
                    = IF WeeksBack(i, k) = 0 THEN NaN
                      ELSE GroupFilledMove(WeeksBack(i, k))
            /\ LET S == {h \in {WeeksBack(i, k) : k \in 2..11} \ {0} :
                            GroupFilledMove(h) # NaN}
                   out == Col(all_df, "move_mean10")[i]
               IN  IF S = {} THEN out = NaN
                   ELSE /\ out # NaN
                        /\ out[1].num * Cardinality(S)
                             = SumOver(S, [h \in S |-> GroupFilledMove(h)[1]])
                                 * out[1].den

\* C9: the rounds run in order, one at a time: a round's tables exist only when
\* every earlier round's file is written; a failure ends the run, so the failed
\* round and the later ones get no file; a written file is never touched again.
C9_RoundsInOrder ==
    /\ [](/\ submission_round \in 1..(NUM_ROUNDS + 1)
          /\ \A n \in 1..NUM_ROUNDS : files[n].exists <=> n < submission_round)
    /\ [][/\ pc = "failed" => pc' = "failed" /\ files' = files
                                /\ submission_round' = submission_round
          /\ \A n \in 1..NUM_ROUNDS : files[n].exists => files'[n] = files[n]
          /\ submission_round' # submission_round =>
                /\ pc = "write"
                /\ submission_round' = submission_round + 1
                /\ files'[submission_round].exists
                /\ files'[submission_round].weeks = GridWeeks]_vars

\* round 2 fails on a bad row after round 1 was written
C9_Witness ==
    /\ pc = "failed"
    /\ submission_round = 2
    /\ NRows(train_df) > 0
    /\ files[1].exists
    /\ ~files[2].exists

====
